---- MODULE Spec2Model ----
(***************************************************************************)
(* A model of the VirtualShield protocol engine                            *)
(* (src/VirtualShield/VirtualShield.cpp, src/VirtualShield/SensorModels.h):*)
(* the message encoder and id counter, the frame assembler (getEvent), the *)
(* event decoder and dispatcher (onJsonReceived), and the request          *)
(* correlator (checkSensors, waitFor).                                     *)
(*                                                                         *)
(* The program is single threaded: one control location (pc) says which    *)
(* loop of the library the sketch is in.  The transport (rx), the peer and *)
(* the millisecond clock (now) are the environment.  Every handler is one  *)
(* action; inside an action the globals are threaded through operators as  *)
(* a record m ("machine"), one operator per C++ function.                  *)
(***************************************************************************)
EXTENDS Integers, Sequences, FiniteSets, TLC

-----------------------------------------------------------------------------
(* Program constants                                                       *)

DEFAULT_LENGTH == -1
SERIAL_ERROR == -1
SERIAL_SUCCESS == 0
requestInterval == 1000
perMessageInterval == 25
maxRememberedSensors == 10
maxReadBuffer == 128

\* `int` of the target (AVR): 16 bits, two's complement.
IntBits == 16
IntMax == 2^(IntBits - 1) - 1
IntMin == -(2^(IntBits - 1))
\* `byte` is an unsigned 8 bit integer.
ByteBits == 8
ToByte(n) == n % (2^ByteBits)

-----------------------------------------------------------------------------
(* Bounds of the model                                                     *)

\* sends per behaviour
MaxSends == 3
\* frames the peer sends per behaviour
MaxFrames == 2
\* frames the peer sends per behaviour of SpecDispatch
MaxEvents == 1
\* bytes the transport holds unread, where the peer sends byte by byte
RxCap == 3
\* the last reading of the millisecond clock
MaxClock == 1
\* calls of checkSensors and waitFor per behaviour
MaxCalls == 1
\* frames the transport holds unread, where the peer sends frame by frame
MaxUnread == 2

-----------------------------------------------------------------------------
(* Text: a string of the program is a sequence of one-character strings.   *)

MESSAGE_SERVICE_START == <<"{", "'", "S", "e", "r", "v", "i", "c", "e", "'", ":", "'">>
MESSAGE_SERVICE_TO_ID == <<"'", ",", "'", "I", "d", "'", ":">>
MESSAGE_QUOTE == <<"'">>
MESSAGE_SEPARATOR == <<",", "'">>
MESSAGE_PAIR_SEPARATOR == <<"'", ":">>
MESSAGE_END2 == <<"}">>
ARRAY_START == <<"[", "{">>
ARRAY_END == <<"}", "]">>
SERVICE_NAME_SERVICE == <<"S", "Y", "S", "T", "E", "M">>
PONG == <<"P", "O", "N", "G">>
TYPE == <<"T", "Y", "P", "E">>
AWAITING_MESSAGE == <<"{", "}">>
SYSTEM_EVENT == "!"
\* declared in VirtualShield.h, which is not among the sources
ACTION_KEY == <<"A", "c", "t", "i", "o", "n">>

Digit(d) == CASE d = 0 -> "0" [] d = 1 -> "1" [] d = 2 -> "2" [] d = 3 -> "3"
              [] d = 4 -> "4" [] d = 5 -> "5" [] d = 6 -> "6" [] d = 7 -> "7"
              [] d = 8 -> "8" [] d = 9 -> "9"

RECURSIVE DecimalNat(_)
DecimalNat(n) == IF n < 10 THEN <<Digit(n)>> ELSE DecimalNat(n \div 10) \o <<Digit(n % 10)>>

\* Print::print(int): the decimal rendering, '-' first when negative
DecimalInt(n) == IF n < 0 THEN <<"-">> \o DecimalNat(-n) ELSE DecimalNat(n)

-----------------------------------------------------------------------------
(* EPtr (SensorModels.h): the constructors the model uses                  *)

None == "None"
ProgPtr == "ProgPtr"
MemPtr == "MemPtr"
IntPtr == "Int"
Char == "Char"
ArrayStart == "ArrayStart"
ArrayEnd == "ArrayEnd"

EPtrBase == [ptrType |-> None, key |-> <<>>, value |-> <<>>, intValue |-> 0,
             length |-> 0, keyIsMem |-> FALSE, asText |-> FALSE, encoded |-> FALSE]

\* EPtr(EPtrType ptrType)
EPtrOfType(t) == [EPtrBase EXCEPT !.ptrType = t]
\* EPtr(EPtrType ptrType, const char* key)
EPtrTypeKey(t, k) == [EPtrBase EXCEPT !.ptrType = t, !.key = k]
\* EPtr(EPtrType ptrType, const char* key, const char* value)
EPtrTypeKeyValue(t, k, v) ==
    [EPtrBase EXCEPT !.ptrType = t, !.key = k, !.value = v, !.asText = TRUE,
                     !.length = -1]
\* EPtr(const char* key, const char* value)
EPtrKeyValue(k, v) ==
    [EPtrBase EXCEPT !.ptrType = ProgPtr, !.key = k, !.value = v, !.asText = TRUE]
\* EPtr(const char* key, const char value)
EPtrKeyChar(k, c) ==
    [EPtrBase EXCEPT !.ptrType = IF c = "NUL" THEN None ELSE Char, !.key = k,
                     !.value = <<c>>, !.asText = TRUE]
\* EPtr(const char* key, int value)
EPtrKeyInt(k, n) == [EPtrBase EXCEPT !.ptrType = IntPtr, !.key = k, !.intValue = n]
\* EPtr(const char* key, const char* value, int length)
EPtrKeyValueLength(k, v, n) ==
    [EPtrBase EXCEPT !.ptrType = MemPtr, !.key = k, !.value = v, !.length = n]

-----------------------------------------------------------------------------
(* The message encoder.  m is the machine record; m.tx is what the call    *)
(* has written to the transport so far, m.ret the C++ return value.        *)

\* F of the value of v, v evaluated once (as C++ evaluates an argument)
Then(v, F(_)) == CHOOSE r \in {F(x) : x \in {v}} : TRUE

\* a write to the transport.  The transport takes m.txRoom more bytes (any
\* number when m.txRoom is -1) and refuses the rest: the write then returns
\* fewer bytes than it was given, which no caller in the program reads.
\* m.txLost counts the writes that were refused a byte.
Emit(m0, chars0) ==
    Then(m0, LAMBDA m :
      Then(chars0, LAMBDA chars :
        IF m.txRoom < 0 THEN [m EXCEPT !.tx = @ \o chars]
        ELSE IF Len(chars) <= m.txRoom
        THEN [m EXCEPT !.tx = @ \o chars, !.txRoom = @ - Len(chars)]
        ELSE [m EXCEPT !.tx = @ \o SubSeq(chars, 1, m.txRoom), !.txRoom = 0,
                       !.txLost = @ + 1]))

\* s with a backslash before each of its bytes that is in `escaped`
Escape(text, escaped) ==
    Then(text, LAMBDA s :
      LET before(i) == Cardinality({j \in 1..(i - 1) : s[j] \in escaped})
          total == Len(s) + before(Len(s) + 1)
      IN [k \in 1..total |->
            LET i == CHOOSE j \in 1..Len(s) :
                       j + before(j) <= k /\ k <= j + before(j + 1)
            IN IF s[i] \in escaped /\ k = i + before(i) THEN "\\" ELSE s[i]])

\* the bytes sendFlashStringOnSerial escapes when `encode` is set
FlashEscaped == {"'"}

\* sendFlashStringOnSerial(flashStringAdr, start, encode)
sendFlashStringOnSerial(m, flashStringAdr, start, encode) ==
    LET actualStart == IF start < 0 THEN 0 ELSE start
        isFormatted == start > DEFAULT_LENGTH
        marks == {i \in actualStart..(Len(flashStringAdr) - 1) : flashStringAdr[i + 1] = "~"}
        stop == IF isFormatted /\ marks # {}
                THEN CHOOSE i \in marks : \A j \in marks : i <= j
                ELSE Len(flashStringAdr)
    IN [Emit(m, Escape(SubSeq(flashStringAdr, actualStart + 1, stop),
                       IF encode THEN FlashEscaped ELSE {}))
          EXCEPT !.ret = IF stop < Len(flashStringAdr) THEN stop + 1 ELSE SERIAL_SUCCESS]

\* the bytes writeValue escapes in a MemPtr value that is not `encoded`
MemEscaped == {"'", "\\"}

\* the MemPtr branch of writeValue: the scan of eptr.value, to its
\* terminator when length is -1 and over `length` bytes otherwise (the
\* terminator and what follows it included, when the text is shorter)
MemScan(m, eptr) ==
    LET scanned == IF eptr.length = -1 THEN eptr.value
                   ELSE [i \in 1..eptr.length |->
                           IF i <= Len(eptr.value) THEN eptr.value[i] ELSE "NUL"]
    IN Emit(m, Escape(scanned, IF eptr.encoded THEN {} ELSE MemEscaped))

\* writeValue(eptr, start)
writeValue(m, eptr, start) ==
    CASE eptr.ptrType = ArrayStart ->
           [sendFlashStringOnSerial(m, ARRAY_START, DEFAULT_LENGTH, FALSE)
              EXCEPT !.isArrayStarted = TRUE]
      [] eptr.ptrType = ProgPtr -> sendFlashStringOnSerial(m, eptr.value, start, TRUE)
      [] eptr.ptrType = MemPtr -> [MemScan(m, eptr) EXCEPT !.ret = 0]
      [] eptr.ptrType = Char -> [Emit(m, eptr.value) EXCEPT !.ret = 0]
      [] eptr.ptrType = IntPtr -> [Emit(m, DecimalInt(eptr.intValue)) EXCEPT !.ret = 0]
      [] OTHER -> [m EXCEPT !.ret = 0]

\* the opening of a pair in write: a quote after an array start, the
\* separator otherwise
PairStart(m0) ==
    Then(m0, LAMBDA m :
      IF m.isArrayStarted
      THEN Then(sendFlashStringOnSerial(m, MESSAGE_QUOTE, DEFAULT_LENGTH, FALSE),
                LAMBDA m1 : IF m1.ret # 0 THEN m1 ELSE [m1 EXCEPT !.isArrayStarted = FALSE])
      ELSE sendFlashStringOnSerial(m, MESSAGE_SEPARATOR, DEFAULT_LENGTH, FALSE))

\* the key of a pair in write
PairKey(m, eptr) ==
    IF eptr.keyIsMem THEN [Emit(m, eptr.key) EXCEPT !.ret = 0]
    ELSE sendFlashStringOnSerial(m, eptr.key, DEFAULT_LENGTH, FALSE)

\* `if (eptr.asText) sendFlashStringOnSerial(MESSAGE_QUOTE)`
QuoteIfText(m, eptr) ==
    IF eptr.asText THEN sendFlashStringOnSerial(m, MESSAGE_QUOTE, DEFAULT_LENGTH, FALSE)
    ELSE [m EXCEPT !.ret = 0]

\* `return SERIAL_ERROR`
Fail(m) == [m EXCEPT !.ret = SERIAL_ERROR]

\* write(EPtr eptr)
write(m0, eptr) ==
    Then(m0, LAMBDA m :
    IF eptr.ptrType = None THEN [m EXCEPT !.ret = SERIAL_SUCCESS]
    ELSE IF eptr.ptrType = ArrayEnd
    THEN Then(sendFlashStringOnSerial(m, ARRAY_END, DEFAULT_LENGTH, FALSE), LAMBDA m1 :
           [m1 EXCEPT !.ret = IF m1.ret # 0 THEN SERIAL_ERROR ELSE SERIAL_SUCCESS])
    ELSE Then(PairStart(m), LAMBDA m1 :
         IF m1.ret # 0 THEN Fail(m1) ELSE
         Then(PairKey(m1, eptr), LAMBDA m2 :
         IF m2.ret # 0 THEN Fail(m2) ELSE
         Then(sendFlashStringOnSerial(m2, MESSAGE_PAIR_SEPARATOR, DEFAULT_LENGTH, FALSE),
              LAMBDA m3 :
         IF m3.ret # 0 THEN Fail(m3) ELSE
         Then(QuoteIfText(m3, eptr), LAMBDA m4 :
         IF m4.ret # 0 THEN Fail(m4) ELSE
         Then(QuoteIfText(writeValue(m4, eptr, DEFAULT_LENGTH), eptr), LAMBDA m5 :
           [m5 EXCEPT !.ret = IF m5.ret # 0 THEN SERIAL_ERROR ELSE SERIAL_SUCCESS]))))))

\* flush(): lastOpenRequest = millis()
flush(m0) == Then(m0, LAMBDA m : [m EXCEPT !.lastOpenRequest = m.now])

\* endWrite()
endWrite(m) ==
    Then(sendFlashStringOnSerial(m, MESSAGE_END2, DEFAULT_LENGTH, FALSE), LAMBDA m1 :
      IF m1.ret # 0 THEN Fail(m1) ELSE [flush(m1) EXCEPT !.ret = SERIAL_SUCCESS])

\* `nextId++` on an int: past IntMax the increment overflows, which is
\* undefined; the build either wraps (and the test `nextId < 0` resets the
\* counter to 1) or folds the test away and keeps the wrapped value
\* (m.ubWrap chooses).
NextIdAfter(m) ==
    IF m.nextId + 1 > IntMax
    THEN (IF m.ubWrap THEN IntMin ELSE 1)
    ELSE (IF m.nextId + 1 < 0 THEN 1 ELSE m.nextId + 1)

\* beginWrite(serviceName)
beginWrite(m0, serviceName) ==
    Then(m0, LAMBDA m :
      Then(sendFlashStringOnSerial([m EXCEPT !.nextId = NextIdAfter(m)],
                                   MESSAGE_SERVICE_START, DEFAULT_LENGTH, FALSE), LAMBDA m1 :
      IF m1.ret # 0 THEN Fail(m1) ELSE
      Then(sendFlashStringOnSerial(m1, serviceName, DEFAULT_LENGTH, FALSE), LAMBDA m2 :
      IF m2.ret # 0 THEN Fail(m2) ELSE
      Then(sendFlashStringOnSerial(m2, MESSAGE_SERVICE_TO_ID, DEFAULT_LENGTH, FALSE),
           LAMBDA m3 :
      IF m3.ret # 0 THEN Fail(m3) ELSE
        [Emit(m3, DecimalInt(m.nextId)) EXCEPT !.ret = m.nextId]))))

RECURSIVE WriteEach(_, _, _)
WriteEach(m, values, i) ==
    IF i > Len(values) THEN m ELSE WriteEach(write(m, values[i]), values, i + 1)

\* the id writeAll keeps: `byte id = beginWrite(serviceName)`
WriteAllId(begun) == ToByte(begun)

\* writeAll(serviceName, values, count, extraAttributes, extraAttributeCount, sensorType)
writeAll(m, serviceName, values, sensorType) ==
    Then(beginWrite(m, serviceName), LAMBDA m1 :
      Then(WriteAllId(m1.ret), LAMBDA id :
      Then(WriteEach(m1, values, 1), LAMBDA m2 :
      Then(IF sensorType # "NUL" THEN write(m2, EPtrKeyChar(TYPE, sensorType)) ELSE m2,
           LAMBDA m3 :
      Then(endWrite(m3), LAMBDA m4 :
        [m4 EXCEPT !.ret = IF m4.ret # 0 THEN SERIAL_ERROR ELSE id])))))

\* writeAll(serviceName)
writeAllService(m, serviceName) ==
    Then(beginWrite(m, serviceName), LAMBDA m1 :
      LET id == WriteAllId(m1.ret) IN
      Then(endWrite(m1), LAMBDA m2 :
        [m2 EXCEPT !.ret = IF m2.ret # 0 THEN SERIAL_ERROR ELSE id]))

\* sendPingBack(shieldEvent)
sendPingBack(m) ==
    writeAll(m, SERVICE_NAME_SERVICE,
             <<EPtrKeyValue(ACTION_KEY, PONG), EPtrTypeKeyValue(MemPtr, TYPE, <<"!">>)>>, "NUL")

-----------------------------------------------------------------------------
(* Inbound bytes.  A byte of the transport is "{", "}", " " (white space), *)
(* "x" (a byte no JSON object may hold there) or a member token: one token *)
(* stands for the text of one key/value pair of an object, and takes one   *)
(* slot of the read buffer.  NUL is the terminator the assembler appends.  *)

NUL == "NUL"
\* a `const char*` that is null; no text of the model is empty
NULL == <<>>

PING == <<"P", "I", "N", "G">>
REFRESH == <<"R", "E", "F", "R", "E", "S", "H">>
CONNECT == <<"C", "O", "N", "N", "E", "C", "T">>
SUSPEND == <<"S", "U", "S", "P", "E", "N", "D">>
RESUME == <<"R", "E", "S", "U", "M", "E">>
OKAY == <<"O", "K">>

NumMember(k, n) == [key |-> k, num |-> n, text |-> NULL]
TextMember(k, t) == [key |-> k, num |-> 0, text |-> t]

Members ==
    [b \in {"Id:5", "Id:6", "Pid:7", "ResultId:0", "ResultId:-1", "Type:!", "Type:L",
            "Type:T", "Type:Z", "Tag:a", "Result:PING", "Result:REFRESH",
            "Result:CONNECT", "Result:SUSPEND", "Result:RESUME", "Result:OK"} |->
       CASE b = "Id:5" -> NumMember("Id", 5)
         [] b = "Id:6" -> NumMember("Id", 6)
         [] b = "Pid:7" -> NumMember("Pid", 7)
         [] b = "ResultId:0" -> NumMember("ResultId", 0)
         [] b = "ResultId:-1" -> NumMember("ResultId", -1)
         [] b = "Type:!" -> TextMember("Type", <<"!">>)
         [] b = "Type:L" -> TextMember("Type", <<"L">>)
         [] b = "Type:T" -> TextMember("Type", <<"T">>)
         [] b = "Type:Z" -> TextMember("Type", <<"Z">>)
         [] b = "Tag:a" -> TextMember("Tag", <<"a">>)
         [] b = "Result:PING" -> TextMember("Result", PING)
         [] b = "Result:REFRESH" -> TextMember("Result", REFRESH)
         [] b = "Result:CONNECT" -> TextMember("Result", CONNECT)
         [] b = "Result:SUSPEND" -> TextMember("Result", SUSPEND)
         [] b = "Result:RESUME" -> TextMember("Result", RESUME)
         [] b = "Result:OK" -> TextMember("Result", OKAY)]

IsMember(b) == b \in DOMAIN Members

\* brace depth of s after its first i bytes
DepthAfter(s, i) ==
    Cardinality({j \in 1..i : s[j] = "{"}) - Cardinality({j \in 1..i : s[j] = "}"})

(* The generic parser (ArduinoJson, a library outside this repository):    *)
(* parseObject succeeds on one brace-balanced object whose bytes are       *)
(* members, nested objects and white space, and on nothing else.           *)
ParseSuccess(json) ==
    Then(SelectSeq(json, LAMBDA b : b # " "), LAMBDA t :
      /\ Len(t) >= 2
      /\ t[1] = "{"
      /\ \A j \in 1..Len(t) : t[j] \in {"{", "}"} \/ IsMember(t[j])
      /\ \A j \in 1..(Len(t) - 1) : DepthAfter(t, j) >= 1
      /\ DepthAfter(t, Len(t)) = 0)

\* the members of the root object: the tokens at depth 1
RootMembers(json) ==
    {j \in 1..Len(json) : IsMember(json[j]) /\ DepthAfter(json, j) = 1}

HasKey(json, k) == \E j \in RootMembers(json) : Members[json[j]].key = k

RootMember(json, k) ==
    Members[json[CHOOSE j \in RootMembers(json) :
                   /\ Members[json[j]].key = k
                   /\ \A i \in RootMembers(json) : Members[json[i]].key = k => j <= i]]

\* static_cast<int>(root[k]) and static_cast<const char*>(root[k]):
\* an absent key reads as 0 and as a null pointer
RootInt(json, k) == IF HasKey(json, k) THEN RootMember(json, k).num ELSE 0
RootText(json, k) == IF HasKey(json, k) THEN RootMember(json, k).text ELSE NULL

-----------------------------------------------------------------------------
(* The hash (per Paul Larson) on `unsigned int`, and the system event kinds *)

Ascii(c) ==
    CASE c = "A" -> 65 [] c = "B" -> 66 [] c = "C" -> 67 [] c = "D" -> 68
      [] c = "E" -> 69 [] c = "F" -> 70 [] c = "G" -> 71 [] c = "H" -> 72
      [] c = "I" -> 73 [] c = "K" -> 75 [] c = "M" -> 77 [] c = "N" -> 78
      [] c = "O" -> 79 [] c = "P" -> 80 [] c = "R" -> 82 [] c = "S" -> 83
      [] c = "T" -> 84 [] c = "U" -> 85

RECURSIVE HashFrom(_, _, _)
HashFrom(s, i, h) ==
    IF i > Len(s) THEN h ELSE HashFrom(s, i + 1, (h * 101 + Ascii(s[i])) % (2^IntBits))

\* hash(s, len = -1, seed = 0) of a text that is not null
hash(s) == HashFrom(s, 1, 0)

\* ShieldEvent.h is not among the sources: the kinds are the hashes of the
\* keywords
PING_HASH == hash(PING)
REFRESH_HASH == hash(REFRESH)
CONNECT_HASH == hash(CONNECT)
SUSPEND_HASH == hash(SUSPEND)
RESUME_HASH == hash(RESUME)

\* hash(NULL) reads through a null pointer, which is undefined: any value
\* may come out, one of the kinds included (m.ubHash chooses among a kind
\* that replies, a kind that calls back and refreshes, and no kind).
UBHashes == {PING_HASH, CONNECT_HASH, 0}

HashOrUB(m, s) == IF s = NULL THEN m.ubHash ELSE hash(s)

-----------------------------------------------------------------------------
(* The event decoder and the dispatcher.  m.event is *shieldEvent, m.calls *)
(* the calls made out of the library since the handler began, in order.    *)

Call(m, fn, i) == [m EXCEPT !.calls = Append(@, [fn |-> fn, i |-> i])]

CallIf(m0, fn) == Then(m0, LAMBDA m : IF fn \in m.callbacks THEN Call(m, fn, 0) ELSE m)

\* SystemEvent of a build whose PING case sets `refresh`
SystemEventPingRefreshes(m0) ==
    Then(m0, LAMBDA m :
      Then(m.event.resultHash, LAMBDA h :
        Then(CASE h = PING_HASH -> Call(sendPingBack(m), "sendPingBack", 0)
               [] h = CONNECT_HASH -> CallIf(m, "onConnect")
               [] h = SUSPEND_HASH -> CallIf(m, "onSuspend")
               [] h = RESUME_HASH -> CallIf(m, "onResume")
               [] OTHER -> m, LAMBDA m1 :
          IF h \in {PING_HASH, REFRESH_HASH, CONNECT_HASH, RESUME_HASH}
          THEN CallIf(m1, "onRefresh")
          ELSE m1)))

\* the switch on resultHash and the refresh that follows it
SystemEvent(m0) ==
    Then(m0, LAMBDA m :
      Then(m.event.resultHash, LAMBDA h :
        Then(CASE h = PING_HASH -> Call(sendPingBack(m), "sendPingBack", 0)
               [] h = CONNECT_HASH -> CallIf(m, "onConnect")
               [] h = SUSPEND_HASH -> CallIf(m, "onSuspend")
               [] h = RESUME_HASH -> CallIf(m, "onResume")
               [] OTHER -> m, LAMBDA m1 :
          IF h \in {REFRESH_HASH, CONNECT_HASH, RESUME_HASH}
          THEN CallIf(m1, "onRefresh")
          ELSE m1)))

\* FirstSensor of a build whose scan does not stop at the first match: the
\* last sensor whose sensorType is c is the one left decoded
FirstSensorScansOn(sensorList, c) ==
    IF \E i \in 1..Len(sensorList) : sensorList[i] = c
    THEN (CHOOSE i \in 1..Len(sensorList) :
            /\ sensorList[i] = c
            /\ \A j \in (i + 1)..Len(sensorList) : sensorList[j] # c) - 1
    ELSE -1

\* the index of the first sensor whose sensorType is c, or -1
FirstSensor(sensorList, c) ==
    IF \E i \in 1..Len(sensorList) : sensorList[i] = c
    THEN (CHOOSE i \in 1..Len(sensorList) :
            /\ sensorList[i] = c
            /\ \A j \in 1..(i - 1) : sensorList[j] # c) - 1
    ELSE -1

\* the scan of the registry for a non-system event
SensorEvent(m0, sensorTypeChar) ==
    Then(m0, LAMBDA m :
      Then(FirstSensor(m.sensors, sensorTypeChar), LAMBDA i :
        IF i >= 0 THEN Call(m, "sensor.onJsonReceived", i) ELSE m))

\* the fields onJsonReceived stores into *shieldEvent
DecodedEvent(m, root) ==
    LET sensorType == RootText(root, "Type")
        pid == RootInt(root, "Pid")
        result == RootText(root, "Result")
    IN [tag |-> sensorType,
        id |-> IF pid = 0 THEN RootInt(root, "Id") ELSE pid,
        resultId |-> RootInt(root, "ResultId"),
        result |-> result,
        resultHash |-> HashOrUB(m, result)]

\* Observer of a build that calls the observer inside `if (sensorType)`
ObserverOfTypedEvents(m) == IF m.event.tag # NULL THEN CallIf(m, "onEvent") ELSE m

RECURSIVE getEvent(_)

\* what the sketch's onEvent does: nothing the program sees, or (when the
\* sketch registered a handler that polls, "onEvent:getEvent") a call of
\* getEvent(shieldEvent) from inside the handler
OnEventBody(m0) ==
    Then(m0, LAMBDA m :
      IF "onEvent:getEvent" \in m.callbacks THEN getEvent(m) ELSE m)

\* the call of the general observer that ends onJsonReceived
Observer(m0) ==
    Then(m0, LAMBDA m :
      IF "onEvent" \in m.callbacks THEN OnEventBody(Call(m, "onEvent", 0)) ELSE m)

\* onJsonReceived(root, shieldEvent)
onJsonReceived(m0, root) ==
    Then(m0, LAMBDA m :
      Then(RootText(root, "Type"), LAMBDA sensorType :
        LET m1 == [m EXCEPT !.event = DecodedEvent(m, root),
                            !.ubMet = @ \/ RootText(root, "Result") = NULL]
            m2 == IF sensorType # NULL
                  THEN (IF sensorType[1] = SYSTEM_EVENT
                        THEN SystemEvent(m1)
                        ELSE SensorEvent(m1, sensorType[1]))
                  ELSE m1
        IN Observer(m2)))

\* onJsonStringReceived(json, shieldEvent)
onJsonStringReceived(m, text) ==
    Then(text, LAMBDA json :
      IF ParseSuccess(json)
      THEN onJsonReceived([m EXCEPT !.strings = Append(@, [json |-> json, ok |-> TRUE])],
                          json)
      ELSE [m EXCEPT !.strings = Append(@, [json |-> json, ok |-> FALSE])])

\* strcpy(json, buffer): the bytes before the first terminator
Strcpy(source) ==
    Then(source, LAMBDA buffer :
      Then({i \in 1..Len(buffer) : buffer[i] = NUL}, LAMBDA ends :
        IF ends # {}
        THEN SubSeq(buffer, 1, (CHOOSE i \in ends : \A j \in ends : i <= j) - 1)
        ELSE buffer))

\* onStringReceived(buffer, length, shieldEvent)
onStringReceived(m, buffer) == onJsonStringReceived(m, Strcpy(buffer))

-----------------------------------------------------------------------------
(* The frame assembler.  m.readBuffer holds readBuffer[0..readBufferIndex), *)
(* so readBufferIndex is its length.                                       *)

\* StoreByte of a build that fills the buffer to its last place
StoreByteToEnd(buffer, c) ==
    IF Len(buffer) < maxReadBuffer THEN Append(buffer, c) ELSE buffer

\* `if (readBufferIndex < maxReadBuffer-1) readBuffer[readBufferIndex++] = c`
StoreByte(buffer, c) ==
    IF Len(buffer) < maxReadBuffer - 1 THEN Append(buffer, c) ELSE buffer

\* the highest index of readBuffer written so far, after a write at the
\* cursor `at`
WroteUpTo(wrote, at) == IF at > wrote THEN at ELSE wrote

\* bracketCount after byte c, before the clamp at a closing brace
CountAfter(count, c) ==
    CASE c = "{" -> count + 1
      [] c = "}" -> count - 1
      [] OTHER -> count

\* FrameEnds of a build that forgets the depth: every closing brace ends
\* the frame
FrameEndsAtEveryBrace(count, c) == c = "}"

\* `--bracketCount < 1` at a closing brace: the frame is complete
FrameEnds(count, c) == c = "}" /\ CountAfter(count, c) < 1

\* BufferAfterFrame of a build that forgets to rewind the buffer
BufferKeptAfterFrame(buffer) == buffer

\* readBufferIndex = 0 after a frame
BufferAfterFrame(buffer) == <<>>

\* the value getEvent returns for a poll that completed a frame
HasEventAfterFrame(m) == TRUE

\* BreakAfterFrame of a build without the `break`: the loop reads on
NoBreakAfterFrame(m) == FALSE

\* `break` after a frame was handed on: the loop ends with bytes unread
BreakAfterFrame(m) == TRUE

\* the `while (available() > 0)` loop of getEvent
RECURSIVE ReadLoop(_)
ReadLoop(m0) ==
    Then(m0, LAMBDA m :
      IF Len(m.rx) = 0 THEN m
      ELSE Then(Head(m.rx), LAMBDA c :
             Then([m EXCEPT !.hadData = TRUE, !.rx = Tail(@), !.read = Append(@, c),
                            !.readBuffer = StoreByte(@, c),
                            !.wrote = IF StoreByte(m.readBuffer, c) # m.readBuffer
                                      THEN WroteUpTo(@, Len(m.readBuffer)) ELSE @],
                  LAMBDA m1 :
               IF FrameEnds(m1.bracketCount, c)
               THEN IF Len(m1.readBuffer) < maxReadBuffer
                    THEN Then(onStringReceived(
                                [m1 EXCEPT !.bracketCount = 0,
                                           !.readBuffer = Append(@, NUL),
                                           !.wrote = WroteUpTo(@, Len(m1.readBuffer))],
                                Append(m1.readBuffer, NUL)), LAMBDA m3 :
                           Then([m3 EXCEPT !.hasEvent = HasEventAfterFrame(m3),
                                           !.hadData = TRUE,
                                           !.readBuffer = BufferAfterFrame(@)], LAMBDA m4 :
                             IF BreakAfterFrame(m4) THEN m4 ELSE ReadLoop(m4)))
                    ELSE ReadLoop([m1 EXCEPT !.bracketCount = 0, !.readBuffer = <<>>])
               ELSE ReadLoop([m1 EXCEPT !.bracketCount = CountAfter(@, c)]))))

\* millis() is an unsigned long and lastOpenRequest a long, both of 32
\* bits.  A word is written here as the long with its bits: a millis() of
\* 2^31 or more is written negative, and the clock passes from -1 to 0 when
\* millis() rolls over.  `a > b` on unsigned long (the long operand of the
\* comparison is converted to unsigned long):
UnsignedGreater(a, b) == IF (a < 0) = (b < 0) THEN a > b ELSE a < 0

\* `available() == 0 && millis() > lastOpenRequest + requestInterval`
ProbeDue(m) ==
    Len(m.rx) = 0 /\ UnsignedGreater(m.now, m.lastOpenRequest + requestInterval)

\* getEvent(shieldEvent)
getEvent(m) ==
    Then([m EXCEPT !.hasEvent = FALSE, !.hadData = FALSE], LAMBDA m0 :
      Then(ReadLoop(IF ProbeDue(m0)
                    THEN [Emit(m0, AWAITING_MESSAGE) EXCEPT !.lastOpenRequest = m0.now,
                                                            !.probes = @ + 1]
                    ELSE m0), LAMBDA m2 :
        [m2 EXCEPT !.lastOpenRequest =
                      IF m2.hadData THEN m2.now - requestInterval + perMessageInterval
                      ELSE @,
                   !.ret = m2.hasEvent]))

-----------------------------------------------------------------------------
(* State                                                                    *)

VARIABLES
    nextId,           \* the id counter
    isArrayStarted,   \* the encoder's "array just started" flag
    readBuffer,       \* readBuffer[0..readBufferIndex)
    bracketCount,     \* the brace depth
    lastOpenRequest,  \* the probe clock
    recentEvent,      \* the event record checkSensors decodes into
    sensors,          \* the registry: the sensorType of each sensor, in order
    callbacks,        \* the callbacks that are registered
    allowAutoBlocking,\* the policy block() tests
    rx,               \* transport: the bytes available to read
    now,              \* millis()
    peer,             \* the frames the peer began to send, bytes of the last still to come
    pc,               \* where the sketch is: "idle", "waitFor", "checkSensors"
    cs,               \* the locals of checkSensors
    wf,               \* the locals of waitFor
    poll,             \* what the latest getEvent did
    last,             \* the latest call of the sketch that returned
    sendRets,         \* the value each writeAll returned, in order
    ncalls            \* calls of checkSensors and waitFor so far

vars == <<nextId, isArrayStarted, readBuffer, bracketCount, lastOpenRequest,
          recentEvent, sensors, callbacks, allowAutoBlocking, rx, now, peer, pc, cs, wf, poll, last,
          sendRets, ncalls>>

NoEvent == [tag |-> NULL, id |-> 0, resultId |-> 0, result |-> NULL, resultHash |-> 0]
NoPoll == [done |-> FALSE, ret |-> FALSE, read |-> <<>>, strings |-> <<>>,
           calls |-> <<>>, tx |-> <<>>, eventBefore |-> NoEvent,
           probes |-> 0, idle |-> FALSE, waited |-> FALSE, wrote |-> -1]
NoCall == [op |-> "none", arg |-> 0, service |-> <<>>, ret |-> 0, tx |-> <<>>,
           polled |-> FALSE, matched |-> FALSE, lost |-> 0, sensor |-> "NUL",
           values |-> <<>>]
NoCheck == [watchForId |-> 0, watchForResultId |-> 0, timeout |-> 0, started |-> 0,
            hadEvents |-> FALSE, inWaitFor |-> FALSE, matched |-> FALSE]
NoWait == [id |-> 0, deadline |-> 0, asSuccess |-> FALSE, resultId |-> 0, found |-> FALSE,
           polled |-> FALSE, matched |-> FALSE, via |-> "none", asked |-> 0]

\* the globals as the handler finds them
Machine(ubWrap, ubHash) ==
    [nextId |-> nextId, isArrayStarted |-> isArrayStarted, readBuffer |-> readBuffer,
     bracketCount |-> bracketCount, lastOpenRequest |-> lastOpenRequest,
     event |-> recentEvent, sensors |-> sensors, callbacks |-> callbacks,
     rx |-> rx, now |-> now, ubWrap |-> ubWrap, ubHash |-> ubHash,
     tx |-> <<>>, calls |-> <<>>, read |-> <<>>, strings |-> <<>>,
     ret |-> 0, hasEvent |-> FALSE, hadData |-> FALSE, ubMet |-> FALSE,
     txRoom |-> -1, txLost |-> 0, probes |-> 0, wrote |-> -1]

\* the globals as the handler leaves them
Commit(m) ==
    /\ nextId' = m.nextId
    /\ isArrayStarted' = m.isArrayStarted
    /\ readBuffer' = m.readBuffer
    /\ bracketCount' = m.bracketCount
    /\ lastOpenRequest' = m.lastOpenRequest
    /\ recentEvent' = m.event
    /\ rx' = m.rx

\* the time that has passed on the probe clock, millis() - lastOpenRequest
\* as an unsigned long, is more than the interval (a difference below 0 of
\* the two words is a time of nearly 2^32)
Waited(interval) == now - lastOpenRequest < 0 \/ now - lastOpenRequest > interval

\* what a poll did: its return value, the bytes it read, the strings it
\* handed the parser, the calls it made, what it wrote, the probes among
\* that, the highest index of readBuffer it wrote (-1 when it wrote none);
\* and what it found: the event record, whether the transport had
\* nothing to read, whether the probe clock had passed the interval
PollOf(m) == [done |-> TRUE, ret |-> m.ret, read |-> m.read, strings |-> m.strings,
              calls |-> m.calls, tx |-> m.tx, eventBefore |-> recentEvent,
              probes |-> m.probes, idle |-> rx = <<>>,
              waited |-> Waited(requestInterval), wrote |-> m.wrote]

\* the undefined outcomes a handler may meet in this state: the counter
\* overflows only at IntMax
Wraps == IF nextId = IntMax THEN BOOLEAN ELSE {FALSE}

\* VirtualShield.h is not among the sources: the counter starts at 1 and
\* no callback is set
InitProgram ==
    /\ isArrayStarted = FALSE
    /\ readBuffer = <<>>
    /\ bracketCount = 0
    /\ lastOpenRequest = 0
    /\ recentEvent = NoEvent
    /\ rx = <<>>
    /\ peer = [sent |-> <<>>, left |-> 0]
    /\ pc = "idle"
    /\ cs = NoCheck
    /\ wf = NoWait
    /\ poll = NoPoll
    /\ last = NoCall
    /\ sendRets = <<>>
    /\ ncalls = 0

-----------------------------------------------------------------------------
(* The registry.  `sensors` holds sensors[0..sensorCount), so sensorCount  *)
(* is its length.                                                          *)

\* RegistryFull of a build that tests `sensorCount > maxRememberedSensors`
RegistryFullPastEnd(sensorCount) == sensorCount > maxRememberedSensors

\* `sensorCount == maxRememberedSensors`
RegistryFull(sensorCount) == sensorCount = maxRememberedSensors

\* addSensor(sensor): the registry and the value returned
addSensor(sensorList, sensor) ==
    IF RegistryFull(Len(sensorList))
    THEN [sensors |-> sensorList, ret |-> FALSE]
    ELSE [sensors |-> Append(sensorList, sensor), ret |-> TRUE]

\* the sketch calls addSensor with a sensor of type sensorType
AddSensor(sensorType) ==
    /\ pc = "idle"
    /\ \E added \in {addSensor(sensors, sensorType)} :
         /\ sensors' = added.sensors
         /\ last' = [NoCall EXCEPT !.op = "addSensor", !.sensor = sensorType,
                                   !.ret = IF added.ret THEN 1 ELSE 0]
    /\ UNCHANGED <<nextId, isArrayStarted, readBuffer, bracketCount, lastOpenRequest,
                   recentEvent, callbacks, allowAutoBlocking, rx, now, peer, pc, cs, wf,
                   poll, sendRets, ncalls>>

-----------------------------------------------------------------------------
(* The sketch sends                                                         *)

\* writeAll(serviceName)
SendService(serviceName) ==
    /\ pc = "idle"
    /\ Len(sendRets) < MaxSends
    /\ \E w \in Wraps :
         \E m \in {writeAllService(Machine(w, 0), serviceName)} :
         /\ Commit(m)
         /\ last' = [NoCall EXCEPT !.op = "writeAll", !.service = serviceName,
                                   !.ret = m.ret, !.tx = m.tx]
         /\ sendRets' = Append(sendRets, m.ret)
    /\ UNCHANGED <<sensors, callbacks, allowAutoBlocking, now, peer, pc, cs, wf, poll, ncalls>>

\* writeAll(serviceName, values, count, 0, 0, sensorType)
SendValues(serviceName, values, sensorType) ==
    /\ pc = "idle"
    /\ Len(sendRets) < MaxSends
    /\ \E w \in Wraps :
         \E m \in {writeAll(Machine(w, 0), serviceName, values, sensorType)} :
         /\ Commit(m)
         /\ last' = [NoCall EXCEPT !.op = "writeAll", !.service = serviceName,
                                   !.ret = m.ret, !.tx = m.tx, !.values = values]
         /\ sendRets' = Append(sendRets, m.ret)
    /\ UNCHANGED <<sensors, callbacks, allowAutoBlocking, now, peer, pc, cs, wf, poll, ncalls>>

\* writeAll(serviceName, values, count, 0, 0, sensorType) over a transport
\* that takes `room` more bytes and refuses the rest
SendValuesOver(serviceName, values, sensorType, room) ==
    /\ pc = "idle"
    /\ Len(sendRets) < MaxSends
    /\ \E w \in Wraps :
         \E m \in {writeAll([Machine(w, 0) EXCEPT !.txRoom = room],
                            serviceName, values, sensorType)} :
         /\ Commit(m)
         /\ last' = [NoCall EXCEPT !.op = "writeAll", !.service = serviceName,
                                   !.ret = m.ret, !.tx = m.tx, !.lost = m.txLost]
         /\ sendRets' = Append(sendRets, m.ret)
    /\ UNCHANGED <<sensors, callbacks, allowAutoBlocking, now, peer, pc, cs, wf, poll, ncalls>>

-----------------------------------------------------------------------------
(* The environment: the peer and the clock                                  *)

\* the frames a peer may send, by name
Frame(name) ==
    CASE name = "id5" -> <<"{", "Id:5", "}">>
      [] name = "id6" -> <<"{", "Id:6", "}">>
      [] name = "id5err" -> <<"{", "Id:5", "ResultId:-1", "}">>
      [] name = "ok5" -> <<"{", "Id:5", "Result:OK", "}">>
      [] name = "ok6" -> <<"{", "Id:6", "Result:OK", "}">>
      [] name = "err5" -> <<"{", "Id:5", "ResultId:-1", "Result:OK", "}">>
      [] name = "pid7" -> <<"{", "Pid:7", "Id:5", "}">>
      [] name = "nested" -> <<"{", "Id:5", "{", "Tag:a", "}", "}">>
      [] name = "junk" -> <<"x", "}">>
      [] name = "stray" -> <<"}">>
      [] name = "long" -> <<"{", "Id:6">> \o [i \in 1..(maxReadBuffer - 2) |-> " "] \o <<"}">>
      [] name = "ping" -> <<"{", "Type:!", "Result:PING", "}">>
      [] name = "refresh" -> <<"{", "Type:!", "Result:REFRESH", "}">>
      [] name = "connect" -> <<"{", "Type:!", "Result:CONNECT", "}">>
      [] name = "suspend" -> <<"{", "Type:!", "Result:SUSPEND", "}">>
      [] name = "resume" -> <<"{", "Type:!", "Result:RESUME", "}">>
      [] name = "system" -> <<"{", "Type:!", "Result:OK", "}">>
      [] name = "bare" -> <<"{", "Type:!", "}">>
      [] name = "L" -> <<"{", "Type:L", "Tag:a", "Id:5", "}">>
      [] name = "T" -> <<"{", "Type:T", "}">>
      [] name = "Z" -> <<"{", "Type:Z", "}">>

\* the peer puts the next byte on the wire: of the frame it is sending, or
\* the first of a new frame
Deliver(names, maxFrames) ==
    /\ Len(rx) < RxCap
    /\ IF peer.left > 0
       THEN LET f == Frame(peer.sent[Len(peer.sent)]) IN
            /\ rx' = Append(rx, f[Len(f) - peer.left + 1])
            /\ peer' = [peer EXCEPT !.left = @ - 1]
       ELSE /\ Len(peer.sent) < maxFrames
            /\ \E name \in names :
                 /\ rx' = Append(rx, Frame(name)[1])
                 /\ peer' = [sent |-> Append(peer.sent, name),
                             left |-> Len(Frame(name)) - 1]
    /\ UNCHANGED <<nextId, isArrayStarted, readBuffer, bracketCount, lastOpenRequest,
                   recentEvent, sensors, callbacks, allowAutoBlocking, now, pc, cs, wf, poll, last,
                   sendRets, ncalls>>

\* the peer puts a whole frame on the wire, when fewer than MaxUnread are
\* unread
DeliverFrame(names, maxFrames) ==
    /\ peer.left = 0
    /\ Len(peer.sent) < maxFrames
    /\ Cardinality({i \in 1..Len(rx) : rx[i] = "}"}) < MaxUnread
    /\ \E name \in names :
         /\ rx' = rx \o Frame(name)
         /\ peer' = [peer EXCEPT !.sent = Append(@, name)]
    /\ UNCHANGED <<nextId, isArrayStarted, readBuffer, bracketCount, lastOpenRequest,
                   recentEvent, sensors, callbacks, allowAutoBlocking, now, pc, cs, wf, poll, last,
                   sendRets, ncalls>>

\* a peer that never stops: it keeps no record of what it sent, and sends
\* the next frame when fewer than MaxUnread are unread
DeliverOn(names) ==
    /\ Cardinality({i \in 1..Len(rx) : rx[i] = "}"}) < MaxUnread
    /\ \E name \in names : rx' = rx \o Frame(name)
    /\ UNCHANGED <<nextId, isArrayStarted, readBuffer, bracketCount, lastOpenRequest,
                   recentEvent, sensors, callbacks, allowAutoBlocking,
                   now, peer, pc, cs, wf, poll, last,
                   sendRets, ncalls>>

Tick ==
    /\ now < MaxClock
    /\ now' = now + 1
    /\ UNCHANGED <<nextId, isArrayStarted, readBuffer, bracketCount, lastOpenRequest,
                   recentEvent, sensors, callbacks, allowAutoBlocking,
                   rx, peer, pc, cs, wf, poll, last,
                   sendRets, ncalls>>

\* the time the clock is followed for, from each instant it is followed from
Span == 60

\* the instants the clock is followed from: one grace window before the
\* interval has passed since the program started, and Span before millis()
\* rolls over
ClockStarts == {requestInterval - perMessageInterval, -Span}

\* d milliseconds pass
Pass(d) ==
    /\ \E start \in ClockStarts : start <= now /\ now + d <= start + Span
    /\ now' = now + d
    /\ UNCHANGED <<nextId, isArrayStarted, readBuffer, bracketCount, lastOpenRequest,
                   recentEvent, sensors, callbacks, allowAutoBlocking, rx, peer, pc, cs, wf,
                   poll, last, sendRets, ncalls>>

\* the peer puts two whole frames on the wire at once
DeliverTwo(names, maxFrames) ==
    /\ peer.left = 0
    /\ Len(peer.sent) + 2 <= maxFrames
    /\ \E first \in names, second \in names :
         /\ rx' = rx \o Frame(first) \o Frame(second)
         /\ peer' = [peer EXCEPT !.sent = @ \o <<first, second>>]
    /\ UNCHANGED <<nextId, isArrayStarted, readBuffer, bracketCount, lastOpenRequest,
                   recentEvent, sensors, callbacks, allowAutoBlocking, now, pc, cs, wf,
                   poll, last, sendRets, ncalls>>

-----------------------------------------------------------------------------
(* The sketch polls                                                         *)

\* the outcomes of getEvent(&recentEvent) in this state: one for each value
\* hash(NULL) may give, when the poll decodes a frame without Result
PollOutcomes ==
    UNION {Then(getEvent(Machine(w, 0)), LAMBDA m0 :
             IF m0.ubMet
             THEN {m0} \cup {getEvent(Machine(w, h)) : h \in UBHashes \ {0}}
             ELSE {m0}) : w \in Wraps}

\* getEvent(&recentEvent) called by the sketch
GetEvent ==
    /\ pc = "idle"
    /\ \E m \in PollOutcomes :
         /\ Commit(m)
         /\ poll' = PollOf(m)
    /\ UNCHANGED <<sensors, callbacks, allowAutoBlocking,
                   now, peer, pc, cs, wf, last, sendRets, ncalls>>

\* the test of checkSensors on the event just decoded
Matches(event, watchForId, watchForResultId) ==
    /\ (watchForId = 0 \/ event.id = watchForId)
    /\ (watchForResultId = -1 \/ event.resultId = watchForResultId)

\* checkSensors(watchForId, timeout, watchForResultId) up to its loop
CallCheckSensors(watchForId, timeout, watchForResultId) ==
    /\ pc = "idle"
    /\ ncalls < MaxCalls
    /\ ncalls' = ncalls + 1
    /\ cs' = [watchForId |-> watchForId, watchForResultId |-> watchForResultId,
              timeout |-> timeout, started |-> now, hadEvents |-> FALSE,
              inWaitFor |-> FALSE, matched |-> FALSE]
    /\ pc' = "checkSensors"
    /\ UNCHANGED <<nextId, isArrayStarted, readBuffer, bracketCount, lastOpenRequest,
                   recentEvent, sensors, callbacks, allowAutoBlocking,
                   rx, now, peer, wf, poll, last,
                   sendRets>>

\* the loop condition of checkSensors after getEvent returned ret
CheckSensorsGoesOn(ret, timeout, started, millis) ==
    ret /\ (timeout = 0 \/ started + timeout <= millis)

\* hadEvents after one more event
HadEventsAfter(hadEvents, event, watchForId, watchForResultId) ==
    Matches(event, watchForId, watchForResultId)

\* one turn of the loop of checkSensors: getEvent, the test, the body or
\* the return
CheckSensorsStep ==
    /\ pc = "checkSensors"
    /\ \E m \in PollOutcomes :
         LET decoded == \E i \in 1..Len(m.strings) : m.strings[i].ok IN
         /\ Commit(m)
         /\ poll' = PollOf(m)
         /\ IF CheckSensorsGoesOn(m.ret, cs.timeout, cs.started, now)
            THEN /\ cs' = [cs EXCEPT !.hadEvents =
                             HadEventsAfter(@, m.event, cs.watchForId, cs.watchForResultId),
                                     !.matched = @ \/ (/\ decoded
                                                       /\ Matches(m.event, cs.watchForId,
                                                                  cs.watchForResultId))]
                 /\ wf' = IF cs.inWaitFor
                          THEN [wf EXCEPT !.polled = TRUE,
                                          !.matched = @ \/ (/\ decoded
                                                            /\ now < wf.deadline
                                                            /\ m.event.id = wf.id
                                                            /\ wf.resultId \in {-1, m.event.resultId})]
                          ELSE wf
                 /\ UNCHANGED <<pc, last>>
            ELSE IF cs.inWaitFor
            THEN /\ wf' = [wf EXCEPT !.polled = TRUE, !.found = cs.hadEvents]
                 /\ pc' = "waitFor"
                 /\ cs' = NoCheck
                 /\ UNCHANGED last
            ELSE /\ last' = [NoCall EXCEPT !.op = "checkSensors", !.arg = cs.watchForId,
                                           !.ret = IF cs.hadEvents THEN 1 ELSE 0,
                                           !.polled = TRUE]
                 /\ pc' = "idle"
                 /\ cs' = NoCheck
                 /\ UNCHANGED wf
    /\ UNCHANGED <<sensors, callbacks, allowAutoBlocking, now, peer, sendRets, ncalls>>

\* WaitForReturnsAtOnce of a build that tests `id < SERIAL_ERROR`
WaitForReturnsAtOnceBelowError(id) == id < SERIAL_ERROR

\* `if (id < 0) return id;`
WaitForReturnsAtOnce(id) == id < 0

\* waitFor(id, timeout, asSuccess, resultId) up to its loop, entered from
\* the sketch (via = "waitFor") or from block (via = "block", which was
\* asked for the filter `asked`)
EnterWaitFor(id, timeout, asSuccess, resultId, via, asked) ==
    /\ pc = "idle"
    /\ ncalls < MaxCalls
    /\ ncalls' = ncalls + 1
    /\ IF WaitForReturnsAtOnce(id)
       THEN /\ last' = [NoCall EXCEPT !.op = via, !.arg = id, !.ret = id]
            /\ UNCHANGED <<pc, wf>>
       ELSE /\ wf' = [id |-> id, deadline |-> timeout + now, asSuccess |-> asSuccess,
                      resultId |-> resultId, found |-> FALSE, polled |-> FALSE,
                      matched |-> FALSE, via |-> via, asked |-> asked]
            /\ pc' = "waitFor"
            /\ UNCHANGED last
    /\ UNCHANGED <<nextId, isArrayStarted, readBuffer, bracketCount, lastOpenRequest,
                   recentEvent, sensors, callbacks, allowAutoBlocking, rx, now, peer, cs,
                   poll, sendRets>>

\* waitFor(id, timeout, true, resultId) called by the sketch
CallWaitFor(id, timeout, resultId) ==
    EnterWaitFor(id, timeout, TRUE, resultId, "waitFor", resultId)

\* the value of waitFor's fourth parameter when the call gives three
\* arguments (the declaration is in VirtualShield.h)
resultIdDefault == -1

\* block(id, blocking, timeout, watchForResultId):
\* `allowAutoBlocking && blocking ? waitFor(id, timeout, watchForResultId) : id`;
\* the third argument of waitFor is the bool asSuccess
CallBlock(id, blocking, timeout, watchForResultId) ==
    IF allowAutoBlocking /\ blocking
    THEN EnterWaitFor(id, timeout, watchForResultId # 0, resultIdDefault, "block",
                      watchForResultId)
    ELSE /\ pc = "idle"
         /\ ncalls < MaxCalls
         /\ ncalls' = ncalls + 1
         /\ last' = [NoCall EXCEPT !.op = "block", !.arg = id, !.ret = id]
         /\ UNCHANGED <<nextId, isArrayStarted, readBuffer, bracketCount, lastOpenRequest,
                        recentEvent, sensors, callbacks, allowAutoBlocking, rx, now, peer,
                        pc, cs, wf, poll, sendRets>>

\* `found ? (asSuccess && id < 0 ? 0 : id) : 0`
WaitForResult(found, asSuccess, id) ==
    IF found THEN (IF asSuccess /\ id < 0 THEN 0 ELSE id) ELSE 0

\* the test of the loop of waitFor: the call of checkSensors(id, 0, resultId),
\* or the return
WaitForStep ==
    /\ pc = "waitFor"
    /\ IF ~wf.found /\ now < wf.deadline
       THEN /\ cs' = [watchForId |-> wf.id, watchForResultId |-> wf.resultId,
                      timeout |-> 0, started |-> now, hadEvents |-> FALSE,
                      inWaitFor |-> TRUE, matched |-> FALSE]
            /\ pc' = "checkSensors"
            /\ UNCHANGED <<wf, last>>
       ELSE /\ last' = [NoCall EXCEPT !.op = wf.via, !.arg = wf.id,
                                      !.ret = WaitForResult(wf.found, wf.asSuccess, wf.id),
                                      !.polled = wf.polled, !.matched = wf.matched]
            /\ pc' = "idle"
            /\ wf' = NoWait
            /\ UNCHANGED cs
    /\ UNCHANGED <<nextId, isArrayStarted, readBuffer, bracketCount, lastOpenRequest,
                   recentEvent, sensors, callbacks, allowAutoBlocking,
                   rx, now, peer, poll, sendRets,
                   ncalls>>

-----------------------------------------------------------------------------
(* Specifications                                                           *)

\* the counter values the sends start from: each is reached from 1 by
\* that many sends less one
StartIds == {1, 2^ByteBits - 2, IntMax - 1}

Services == {SERVICE_NAME_SERVICE, <<"L", "C", "D">>}

ValueLists ==
    {<<>>,
     <<EPtrKeyInt(<<"X">>, 3)>>,
     <<EPtrKeyValue(ACTION_KEY, PONG), EPtrTypeKeyValue(MemPtr, TYPE, <<"!">>)>>}

InitSend ==
    /\ InitProgram
    /\ now = 0
    /\ allowAutoBlocking = TRUE
    /\ nextId \in StartIds
    /\ sensors = <<>>
    /\ callbacks = {}

NextSend ==
    \/ \E serviceName \in Services : SendService(serviceName)
    \/ \E serviceName \in Services, values \in ValueLists, sensorType \in {NUL, "L"} :
         SendValues(serviceName, values, sensorType)

\* the sketch only sends
SpecSend == InitSend /\ [][NextSend]_vars

\* value lists with arrays: an array of one pair, an array-start that is the
\* last value, and one followed at once by an array-end or by an absent value
ArrayLists ==
    {<<>>,
     <<EPtrKeyInt(<<"X">>, 3)>>,
     <<EPtrTypeKey(ArrayStart, <<"A">>), EPtrKeyInt(<<"X">>, 3), EPtrOfType(ArrayEnd)>>,
     <<EPtrTypeKey(ArrayStart, <<"A">>)>>,
     <<EPtrTypeKey(ArrayStart, <<"A">>), EPtrOfType(ArrayEnd)>>,
     <<EPtrTypeKey(ArrayStart, <<"A">>), EPtrKeyChar(<<"X">>, NUL)>>}

NextArray ==
    \E serviceName \in Services, values \in ArrayLists, sensorType \in {NUL, "L"} :
        SendValues(serviceName, values, sensorType)

\* the sketch sends messages with arrays
SpecArray == InitSend /\ [][NextArray]_vars

\* texts with and without the bytes the wire format escapes
Texts == {<<"a">>, <<"'">>, <<"\\">>, <<"a", "'", "b">>, <<"\\", "'">>}

\* the text values of each kind: constant text, owned text read to its
\* terminator, owned text of a given length (all of the text, or its first
\* byte), a character, and owned text marked as encoded already
TextValues ==
    {EPtrKeyValue(<<"K">>, v) : v \in Texts}
    \cup {EPtrTypeKeyValue(MemPtr, <<"K">>, v) : v \in Texts}
    \cup {[EPtrKeyValueLength(<<"K">>, v, n) EXCEPT !.asText = TRUE] :
             v \in Texts, n \in {1, 2, 3}}
    \cup {EPtrKeyChar(<<"K">>, c) : c \in {"a", "'", "\\"}}
    \cup {[EPtrTypeKeyValue(MemPtr, <<"K">>, v) EXCEPT !.encoded = TRUE] : v \in Texts}

NextText ==
    \E serviceName \in Services, eptr \in TextValues :
        SendValues(serviceName, <<eptr>>, NUL)

\* the sketch sends messages with one text value
SpecText == InitSend /\ [][NextText]_vars

\* the bytes a failing transport takes before it refuses: none, the
\* preamble up to the service name, a message less its closing brace, and
\* a message into its first field
Rooms == {0, Len(MESSAGE_SERVICE_START), 26, 40}

NextLink ==
    \E serviceName \in Services, values \in ValueLists, sensorType \in {NUL, "L"},
       room \in Rooms :
        SendValuesOver(serviceName, values, sensorType, room)

\* the sketch sends over a transport that fails
SpecLink == InitSend /\ [][NextLink]_vars

AllCallbacks == {"onConnect", "onSuspend", "onResume", "onRefresh", "onEvent"}

\* the frame assembler alone: the peer sends, the sketch polls
FrameNames == {"id5", "nested", "junk", "stray", "long"}

InitFrame ==
    /\ InitProgram
    /\ now = 0
    /\ allowAutoBlocking = TRUE
    /\ nextId = 1
    /\ sensors = <<>>
    /\ callbacks = AllCallbacks

NextFrame ==
    \/ Deliver(FrameNames, MaxFrames)
    \/ GetEvent

SpecFrame == InitFrame /\ [][NextFrame]_vars

\* the dispatcher: every kind of frame, with and without callbacks and sensors
DispatchNames == {"ping", "refresh", "connect", "suspend", "resume", "system", "bare",
                  "L", "T", "Z", "id5", "junk"}

InitDispatch ==
    /\ InitProgram
    /\ now = 0
    /\ allowAutoBlocking = TRUE
    /\ nextId = 1
    /\ sensors \in {<<>>, <<"T", "L", "L">>}
    /\ callbacks \in {{}, AllCallbacks, AllCallbacks \ {"onEvent"}}

NextDispatch ==
    \/ DeliverFrame(DispatchNames, MaxEvents)
    \/ GetEvent

SpecDispatch == InitDispatch /\ [][NextDispatch]_vars

\* the request correlator: the sketch waits while the peer sends and the
\* clock runs
WaitNames == {"ok5", "ok6", "err5"}
\* the calls of waitFor the sketch makes: <<id, timeout, resultId>>
WaitCalls == {<<-1, 1, -1>>, <<0, 1, -1>>, <<5, 1, -1>>, <<5, 1, 0>>}

InitWait ==
    /\ InitProgram
    /\ now = 0
    /\ allowAutoBlocking = TRUE
    /\ nextId = 1
    /\ sensors = <<>>
    /\ callbacks = {}

NextWait ==
    \/ DeliverOn(WaitNames)
    \/ Tick
    \/ \E call \in WaitCalls : CallWaitFor(call[1], call[2], call[3])
    \/ CallCheckSensors(5, 0, -1)
    \/ WaitForStep
    \/ CheckSensorsStep

SpecWait == InitWait /\ [][NextWait]_vars

\* the sketch waits for id 5 with result id 0 while a peer never stops
\* sending frames that do not match; the processor keeps running the loops
\* the sketch is in, and the clock runs
NextWaitOn ==
    \/ DeliverOn({"ok6", "err5"})
    \/ Tick
    \/ \E timeout \in {0, 1} : CallWaitFor(5, timeout, 0)
    \/ WaitForStep
    \/ CheckSensorsStep

SpecWaitOn ==
    /\ InitWait
    /\ [][NextWaitOn]_vars
    /\ WF_vars(WaitForStep)
    /\ WF_vars(CheckSensorsStep)
    /\ WF_vars(Tick)

\* the sketch polls, and then waits for id 5 with any result id, within one
\* millisecond; the peer sends answers to id 5 and stray closing braces
NextStale ==
    \/ DeliverOn({"ok5", "stray"})
    \/ GetEvent
    \/ CallWaitFor(5, 1, -1)
    \/ WaitForStep
    \/ CheckSensorsStep

SpecStale == InitWait /\ [][NextStale]_vars

\* the sketch calls checkSensors with a timeout of one millisecond, for id 5
\* or for any id, while the peer sends and the clock runs
NextCheck ==
    \/ DeliverOn({"ok5", "ok6"})
    \/ Tick
    \/ \E watchForId \in {0, 5} : CallCheckSensors(watchForId, 1, -1)
    \/ CheckSensorsStep

SpecCheck == InitWait /\ [][NextCheck]_vars

\* the sketch polls with an observer that does nothing or one that polls
\* again from inside the call; the peer sends two frames at once
ReenterNames == {"id5", "id6", "ok5", "ok6", "nested", "L"}

InitReenter ==
    /\ InitProgram
    /\ now = 0
    /\ allowAutoBlocking = TRUE
    /\ nextId = 1
    /\ sensors = <<>>
    /\ callbacks \in {{"onEvent"}, {"onEvent", "onEvent:getEvent"}}

NextReenter ==
    \/ DeliverTwo(ReenterNames, MaxFrames)
    \/ GetEvent

SpecReenter == InitReenter /\ [][NextReenter]_vars

\* the sketch calls block, with the policy set either way before it runs,
\* while the peer answers id 5 with and without an error result id
BlockCalls == {<<-1, TRUE, 1, -1>>, <<5, FALSE, 1, 0>>, <<5, TRUE, 1, -1>>, <<5, TRUE, 1, 0>>}

InitBlock ==
    /\ InitProgram
    /\ now = 0
    /\ allowAutoBlocking \in BOOLEAN
    /\ nextId = 1
    /\ sensors = <<>>
    /\ callbacks = {}

NextBlock ==
    \/ DeliverOn({"ok5", "err5"})
    \/ Tick
    \/ \E call \in BlockCalls : CallBlock(call[1], call[2], call[3], call[4])
    \/ WaitForStep
    \/ CheckSensorsStep

SpecBlock == InitBlock /\ [][NextBlock]_vars

\* the registry: the sketch adds sensors of two types, as often as it likes
SensorTypes == {"T", "L"}

NextRegistry == \E sensorType \in SensorTypes : AddSensor(sensorType)

SpecRegistry == InitFrame /\ [][NextRegistry]_vars

\* frames that arrive together: the peer sends two at once, the sketch polls
BurstNames == {"id5", "id6", "ok5", "nested", "junk", "stray", "L"}

NextBurst ==
    \/ DeliverTwo(BurstNames, MaxFrames)
    \/ GetEvent

SpecBurst == InitFrame /\ [][NextBurst]_vars

\* the probe: the sketch polls and sends while time passes, by the grace
\* window or a millisecond more, and the peer answers
InitProbe ==
    /\ InitProgram
    /\ now \in ClockStarts
    /\ allowAutoBlocking = TRUE
    /\ nextId = 1
    /\ sensors = <<>>
    /\ callbacks = {}

NextProbe ==
    \/ DeliverOn({"ok5"})
    \/ \E d \in {perMessageInterval, perMessageInterval + 1} : Pass(d)
    \/ SendService(SERVICE_NAME_SERVICE)
    \/ GetEvent

SpecProbe == InitProbe /\ [][NextProbe]_vars

-----------------------------------------------------------------------------
(* Reading a message off the wire                                           *)

IsDigit(c) == \E d \in 0..9 : Digit(d) = c
DigitValue(c) == CHOOSE d \in 0..9 : Digit(d) = c

RECURSIVE ParseNat(_, _, _)
ParseNat(s, i, acc) ==
    IF i <= Len(s) /\ IsDigit(s[i]) THEN ParseNat(s, i + 1, acc * 10 + DigitValue(s[i]))
    ELSE acc

\* the number a reader of the wire finds after 'Id': in the message a send wrote
WireId(call) ==
    LET at == Len(MESSAGE_SERVICE_START) + Len(call.service) + Len(MESSAGE_SERVICE_TO_ID) + 1
    IN IF call.tx[at] = "-" THEN -ParseNat(call.tx, at + 1, 0) ELSE ParseNat(call.tx, at, 0)

-----------------------------------------------------------------------------
(* Claims                                                                   *)

\* C1: each send returns the id one greater than the send before it
\* returned, until the id reaches the largest positive int; the send after
\* that returns 1; no send returns 0 or a negative id.
C1_Original ==
    \A i \in 1..Len(sendRets) :
        /\ sendRets[i] >= 1
        /\ i > 1 => sendRets[i] = IF sendRets[i - 1] = IntMax THEN 1 ELSE sendRets[i - 1] + 1

\* C2: the id a send returns is the id it wrote after 'Id': on the wire.
C2_Original == last.op = "writeAll" => WireId(last) = last.ret

\* C3: a waitFor with id > 0 that decodes, before its deadline, an event
\* with that id and a result id the filter lets through returns that id.
C3_Original ==
    (last.op = "waitFor" /\ last.arg > 0 /\ last.matched) => last.ret = last.arg

\* C4: a waitFor that no matching event ends returns 0 once the clock has
\* passed its deadline, whatever the peer sends meanwhile.
C4_Original ==
    (pc # "idle" /\ now >= wf.deadline) ~> (pc = "idle" /\ last.op = "waitFor" /\ last.ret = 0)

\* a step that calls waitFor (a call that is not one of checkSensors), and
\* the id it is called with
WaitForCalled == ncalls' = ncalls + 1 /\ pc' # "checkSensors"
CalledId == IF pc' = "waitFor" THEN wf'.id ELSE last'.arg

\* the call returned in the step that made it, and touched nothing
ReturnedAtOnce ==
    /\ pc' = "idle"
    /\ last'.op = "waitFor"
    /\ last'.ret = CalledId
    /\ ~last'.polled
    /\ UNCHANGED <<rx, readBuffer, bracketCount, recentEvent, poll, now, lastOpenRequest>>

RECURSIVE StreamLen(_, _)
StreamLen(names, k) ==
    IF k = 0 THEN 0 ELSE StreamLen(names, k - 1) + Len(Frame(names[k]))

\* the bytes the sketch has read, the frame the last of them is in, and the
\* place of that byte in its frame
ReadUpTo == StreamLen(peer.sent, Len(peer.sent)) - peer.left - Len(rx)
FrameRead ==
    CHOOSE k \in 1..Len(peer.sent) :
        StreamLen(peer.sent, k - 1) < ReadUpTo /\ ReadUpTo <= StreamLen(peer.sent, k)
OffsetRead == ReadUpTo - StreamLen(peer.sent, FrameRead - 1)

\* the latest poll read bytes
PollRead == poll.done /\ poll.read # <<>>

\* the latest poll decoded exactly the frame `name`, which carries id 5
DecodedOnce(name) ==
    /\ poll.ret
    /\ poll.strings = <<[json |-> Frame(name), ok |-> TRUE]>>
    /\ poll.calls = <<[fn |-> "onEvent", i |-> 0]>>
    /\ recentEvent.id = 5

\* the latest poll decoded nothing
DecodedNothing ==
    /\ ~poll.ret
    /\ poll.strings = <<>>
    /\ poll.calls = <<>>
    /\ recentEvent = poll.eventBefore

\* C6: a poll that ends inside a nested object reports no event, also when
\* it ends on the inner closing brace; the poll that reads the outer closing
\* brace decodes exactly one event.
C6_NestedFrame ==
    (PollRead /\ peer.sent[FrameRead] = "nested") =>
        IF OffsetRead = Len(Frame("nested")) THEN DecodedOnce("nested") ELSE DecodedNothing

\* a poll read the outer closing brace alone, and decoded the object
C6_Witness ==
    /\ PollRead /\ peer.sent[FrameRead] = "nested"
    /\ poll.read = <<"}">> /\ OffsetRead = Len(Frame("nested"))
    /\ DecodedOnce("nested")

\* C7: the poll that completes the frame after an oversized frame hands the
\* parser that frame, from its first byte, and the event is decoded from it.
C7_AfterLongFrame ==
    (/\ PollRead
     /\ FrameRead > 1
     /\ peer.sent[FrameRead - 1] = "long"
     /\ peer.sent[FrameRead] \in {"id5", "nested"}
     /\ OffsetRead = Len(Frame(peer.sent[FrameRead])))
    => DecodedOnce(peer.sent[FrameRead])

\* an oversized frame, then a frame of three bytes, decoded
C7_Witness ==
    /\ peer.sent = <<"long", "id5">>
    /\ PollRead /\ FrameRead = 2 /\ OffsetRead = Len(Frame("id5"))
    /\ DecodedOnce("id5")

\* C8: a completed frame the parser rejects causes no call, leaves the event
\* record alone, and the poll does not report an event.
C8_Original ==
    (poll.done /\ poll.strings # <<>> /\ ~poll.strings[1].ok) =>
        /\ poll.calls = <<>>
        /\ recentEvent = poll.eventBefore
        /\ ~poll.ret

\* {'Service':'SYSTEM','Id':<id>,'Action':'PONG','TYPE':'!'}
PongMessage(id) ==
    <<"{", "'", "S", "e", "r", "v", "i", "c", "e", "'", ":", "'", "S", "Y", "S", "T",
      "E", "M", "'", ",", "'", "I", "d", "'", ":">> \o DecimalInt(id) \o
    <<",", "'", "A", "c", "t", "i", "o", "n", "'", ":", "'", "P", "O", "N", "G", "'",
      ",", "'", "T", "Y", "P", "E", "'", ":", "'", "!", "'", "}">>

\* the calls of fn the latest poll made
CallsOf(fn) == {i \in 1..Len(poll.calls) : poll.calls[i].fn = fn}

\* the latest poll decoded the frame `name`
Decoded(name) == poll.done /\ poll.strings = <<[json |-> Frame(name), ok |-> TRUE]>>

\* C9: decoding a system event whose Result is PING writes one PONG message
\* (under the id the counter gave it) and nothing else, and calls none of
\* onRefresh, onConnect, onSuspend, onResume.
C9_PingPong ==
    Decoded("ping") =>
        /\ poll.tx = PongMessage(nextId - 1)
        /\ Cardinality(CallsOf("sendPingBack")) = 1
        /\ \A fn \in {"onRefresh", "onConnect", "onSuspend", "onResume"} : CallsOf(fn) = {}

\* a PING decoded with every callback registered
C9_Witness ==
    /\ Decoded("ping")
    /\ callbacks = AllCallbacks
    /\ poll.tx = PongMessage(1)

\* C10: for every frame the parser accepts, the observer, when registered,
\* is called exactly once and after every other call the frame causes; when
\* not registered it is not called.
C10_ObserverLast ==
    (poll.done /\ poll.strings # <<>> /\ poll.strings[1].ok) =>
        IF "onEvent" \in callbacks
        THEN CallsOf("onEvent") = {Len(poll.calls)} /\ Len(poll.calls) >= 1
        ELSE CallsOf("onEvent") = {}

\* a CONNECT decoded: onConnect, onRefresh, then the observer
C10_Witness ==
    /\ Decoded("connect")
    /\ poll.calls = <<[fn |-> "onConnect", i |-> 0], [fn |-> "onRefresh", i |-> 0],
                      [fn |-> "onEvent", i |-> 0]>>

\* the frames of the catalogue that are system events, and the name of the
\* one the latest poll decoded
SystemFrames == {"ping", "refresh", "connect", "suspend", "resume", "system", "bare"}
DecodedSystem(name) == name \in SystemFrames /\ Decoded(name)

\* C11: for a system event onRefresh is called if and only if it is
\* registered and the Result is REFRESH, CONNECT or RESUME; at most once for
\* a frame, and after onConnect or onResume; a SUSPEND calls onSuspend and
\* none of the other system callbacks.
C11_Original ==
    \A name \in SystemFrames :
        DecodedSystem(name) =>
            /\ CallsOf("onRefresh") # {}
                 <=> ("onRefresh" \in callbacks /\ name \in {"refresh", "connect", "resume"})
            /\ Cardinality(CallsOf("onRefresh")) <= 1
            /\ \A i \in CallsOf("onRefresh") :
                 \A j \in CallsOf("onConnect") \cup CallsOf("onResume") : j < i
            /\ name = "suspend" =>
                 \A i \in 1..Len(poll.calls) : poll.calls[i].fn \in {"onSuspend", "onEvent"}

\* the latest poll handed the parser a frame it accepted
DecodedAny == poll.done /\ poll.strings # <<>> /\ poll.strings[1].ok

\* the places in the registry of the sensors an event of this Type is for
SensorsFor(type) ==
    {k \in 1..Len(sensors) :
        type # NULL /\ type[1] # SYSTEM_EVENT /\ sensors[k] = type[1]}

\* the sensors (by index from 0) whose onJsonReceived the latest poll called
SensorsCalled == {poll.calls[i].i : i \in CallsOf("sensor.onJsonReceived")}

\* C12: an event causes at most one call of a sensor's onJsonReceived: of
\* the first sensor in the registry whose sensorType is the first character
\* of Type; no other sensor is called, and none for Type '!'.
C12_FirstMatch ==
    DecodedAny =>
        /\ Cardinality(CallsOf("sensor.onJsonReceived")) <= 1
        /\ SensorsCalled =
             IF SensorsFor(recentEvent.tag) = {} THEN {}
             ELSE {(CHOOSE k \in SensorsFor(recentEvent.tag) :
                      \A j \in SensorsFor(recentEvent.tag) : k <= j) - 1}

\* Type L with sensors T, L, L: the first L (index 1) is called, alone
C12_Witness ==
    /\ Decoded("L")
    /\ sensors = <<"T", "L", "L">>
    /\ SensorsCalled = {1}
    /\ Cardinality(CallsOf("sensor.onJsonReceived")) = 1

\* C13: a send during which the transport refused a write writes nothing
\* after the refused write and returns a negative error code.
C13_Original ==
    (last.op = "writeAll" /\ last.lost > 0) => (last.ret < 0 /\ last.lost = 1)

\* C14: with the policy on and blocking asked for, block waits as
\* waitFor(id, timeout, resultFilter) does: under the result-id filter it
\* was given; otherwise it returns the id it was given, and nothing is
\* polled.
C14_Original ==
    /\ wf.via = "block" => wf.resultId = wf.asked
    /\ (last.op = "block" /\ ~allowAutoBlocking) =>
         (last.ret = last.arg /\ ~last.polled /\ ~poll.done)

\* a step that is a poll: no time passes, nothing is sent, no byte arrives
PollStep == UNCHANGED <<now, sendRets>> /\ Len(rx') <= Len(rx) /\ poll'.done

\* C15: a poll writes a probe only if the transport had nothing to read
\* when it began and more than requestInterval had passed on the probe
\* clock; it writes at most one, and the probe clock then reads the time of
\* the poll (so that two probes with nothing read and nothing flushed
\* between them are more than requestInterval apart); after a poll that
\* read bytes no probe is due until perMessageInterval has passed.
C15_Original ==
    [][PollStep =>
         /\ poll'.probes <= 1
         /\ poll'.probes = 1 =>
              (poll'.idle /\ poll'.waited /\ lastOpenRequest' = now)
         /\ poll'.read # <<>> =>
              lastOpenRequest' >= now - requestInterval + perMessageInterval]_vars

\* C16: a poll hands on at most one frame: it reads the frame that is next
\* in the transport, whole and alone, reports the event decoded from it,
\* and leaves every byte after it unread; so the frames are handed on one to a poll and in
\* the order they arrived.
C16_OneFramePerPoll ==
    PollRead =>
        /\ poll.read = Frame(peer.sent[FrameRead])
        /\ OffsetRead = Len(poll.read)
        /\ Len(poll.strings) = 1
        /\ poll.strings[1].json = Frame(peer.sent[FrameRead])
        /\ poll.strings[1].ok => poll.ret
        /\ rx = SubSeq(Frame(peer.sent[1]) \o Frame(peer.sent[2]),
                       ReadUpTo + 1, StreamLen(peer.sent, 2))

\* two frames arrived together: the first poll handed on the first of them
\* and left the second, whole, in the transport
C16_Witness ==
    /\ peer.sent = <<"id5", "id6">>
    /\ poll.read = Frame("id5")
    /\ poll.strings = <<[json |-> Frame("id5"), ok |-> TRUE]>>
    /\ rx = Frame("id6")

\* a step that is a call of addSensor with `sensor`
AddSensorStep(sensor) == last'.op = "addSensor" /\ last'.sensor = sensor

\* C17: addSensor returns true and puts the sensor at the end of the
\* registry while fewer than maxRememberedSensors are registered; with
\* maxRememberedSensors registered it returns false and leaves the registry
\* alone; the registry never holds more than maxRememberedSensors, and
\* what it holds stays in the order it was added.
C17_Registry ==
    /\ [](Len(sensors) \in 0..maxRememberedSensors)
    /\ [][\A sensor \in SensorTypes :
            AddSensorStep(sensor) =>
                IF Len(sensors) < maxRememberedSensors
                THEN sensors' = Append(sensors, sensor) /\ last'.ret = 1
                ELSE sensors' = sensors /\ last'.ret = 0]_vars

\* the registry is full and the call after that was refused
C17_Witness ==
    /\ Len(sensors) = maxRememberedSensors
    /\ last.op = "addSensor" /\ last.ret = 0 /\ last.sensor = "L"
    /\ sensors[1] = "T"

\* C18: waitFor with an id above 0 returns that id only if, during the
\* call, the parser accepted a frame and the event decoded from it carries
\* that id and a result id the filter lets through; a frame the parser
\* rejects and an event decoded before the call do not count.
C18_Original ==
    (last.op = "waitFor" /\ last.arg > 0 /\ last.ret = last.arg) => last.matched

\* a step in which checkSensors returns to the sketch
CheckSensorsReturns == pc = "checkSensors" /\ pc' = "idle"

\* the poll of this step decoded an event that the call watches for
MatchedNow ==
    /\ poll'.strings # <<>> /\ poll'.strings[1].ok
    /\ Matches(recentEvent', cs.watchForId, cs.watchForResultId)

\* C19: checkSensors with a timeout other than 0 goes on receiving while
\* there are events, until the timeout has passed: it does not return
\* before that with a frame unread; and it returns true if an event it
\* processed matched.
C19_Original ==
    [][(CheckSensorsReturns /\ cs.timeout # 0) =>
         /\ now < cs.started + cs.timeout => \A i \in 1..Len(rx') : rx'[i] # "}"
         /\ (cs.matched \/ MatchedNow) => last'.ret = 1]_vars

\* C20: when the observer polls from inside the call, every frame is still
\* handed to the parser once, as the bytes it arrived as, in the order of
\* arrival: the strings a poll (and the polls inside it) handed on are the
\* frames it read.
C20_Original ==
    PollRead =>
        \A i \in 1..Len(poll.strings) :
            poll.strings[i].json = Frame(peer.sent[FrameRead - Len(poll.strings) + i])

\* the place in the message a send wrote of the last byte of its preamble:
\* {'Service':'<name>','Id':<id>
RECURSIVE SkipNumber(_, _)
SkipNumber(s, i) ==
    IF i <= Len(s) /\ (IsDigit(s[i]) \/ s[i] = "-") THEN SkipNumber(s, i + 1) ELSE i - 1
PreambleEnd(call) ==
    SkipNumber(call.tx, Len(MESSAGE_SERVICE_START) + Len(call.service)
                          + Len(MESSAGE_SERVICE_TO_ID) + 1)

\* C21: the array flag is clear whenever a message begins, whatever values
\* the messages before it held, so that the first thing after the preamble
\* of a message is the `,'` of its first pair (or what ends the message),
\* never the bare quote that follows an array start.
C21_Original ==
    /\ ~isArrayStarted
    /\ last.op = "writeAll" =>
         \/ last.tx[PreambleEnd(last) + 1] = "}"
         \/ SubSeq(last.tx, PreambleEnd(last) + 1, PreambleEnd(last) + 2) = MESSAGE_SEPARATOR

\* the latest poll read the last byte of a frame
FrameCompleted == PollRead /\ OffsetRead = Len(Frame(peer.sent[FrameRead]))

\* C22: whatever the peer sends and however the polls cut it, every write
\* of a poll into readBuffer, of a byte read or of the terminator, is at an
\* index of 0..127, the cursor is at most 127 and the depth at least 0
\* between polls, and both are 0 after the poll that completed a frame.
C22_FrameBuffer ==
    /\ poll.wrote <= maxReadBuffer - 1
    /\ Len(readBuffer) <= maxReadBuffer - 1
    /\ bracketCount >= 0
    /\ FrameCompleted => (Len(readBuffer) = 0 /\ bracketCount = 0)

\* a poll read the closing brace of a frame longer than the buffer, wrote
\* the terminator at index 127 and left the cursor and the depth at 0
C22_Witness ==
    /\ FrameCompleted /\ peer.sent[FrameRead] = "long"
    /\ poll.wrote = maxReadBuffer - 1
    /\ Len(readBuffer) = 0 /\ bracketCount = 0

\* C23: the tag of the event decoded from a frame is the value of the
\* frame's Tag key, NULL when the frame has none, whatever its Type is.
C23_Original ==
    DecodedAny => recentEvent.tag = RootText(poll.strings[1].json, "Tag")

\* the last call sent a message with one value, a text not longer than the
\* scan of it
TextSent ==
    /\ last.op = "writeAll" /\ last.ret >= 0
    /\ Len(last.values) = 1
    /\ last.values[1].ptrType \in {ProgPtr, MemPtr, Char}
    /\ last.values[1].asText
    /\ (last.values[1].ptrType = MemPtr /\ last.values[1].length # -1)
         => last.values[1].length <= Len(last.values[1].value)

\* the text the value was given: the first `length` bytes of an owned text
\* with a length
TextGiven(eptr) ==
    IF eptr.ptrType = MemPtr /\ eptr.length # -1
    THEN SubSeq(eptr.value, 1, eptr.length) ELSE eptr.value

\* the bytes of the message between the quotes of its one value
TextEmitted ==
    SubSeq(last.tx,
           PreambleEnd(last) + Len(MESSAGE_SEPARATOR) + Len(last.values[1].key)
             + Len(MESSAGE_PAIR_SEPARATOR) + Len(MESSAGE_QUOTE) + 1,
           Len(last.tx) - Len(MESSAGE_END2) - Len(MESSAGE_QUOTE))

\* s from its byte i on holds no quote and no backslash but after a
\* backslash
RECURSIVE AllEscaped(_, _)
AllEscaped(s, i) ==
    IF i > Len(s) THEN TRUE
    ELSE IF s[i] = "'" THEN FALSE
    ELSE IF s[i] = "\\"
         THEN i < Len(s) /\ s[i + 1] \in {"'", "\\"} /\ AllEscaped(s, i + 2)
    ELSE AllEscaped(s, i + 1)

\* s from its byte i on without the backslash before each escaped byte
RECURSIVE Unescaped(_, _)
Unescaped(s, i) ==
    IF i > Len(s) THEN <<>>
    ELSE IF s[i] = "\\" /\ i < Len(s) THEN <<s[i + 1]>> \o Unescaped(s, i + 2)
    ELSE <<s[i]>> \o Unescaped(s, i + 1)

\* C24: a text value that is not marked encoded is emitted with every quote
\* and backslash of it after a backslash, and is the text given once those
\* backslashes are removed; a value marked encoded is emitted as it is.
C24_Original ==
    TextSent =>
        IF last.values[1].encoded
        THEN TextEmitted = TextGiven(last.values[1])
        ELSE /\ AllEscaped(TextEmitted, 1)
             /\ Unescaped(TextEmitted, 1) = TextGiven(last.values[1])

====
